---- MODULE Spec2Model ----
(***************************************************************************)
(* SQLPapers (tethne/persistence/psql/paper.py): a list of row ids backed  *)
(* by a PostgreSQL table of Papers and a sibling table of cited Papers.    *)
(*                                                                         *)
(* The database is modelled by what PostgreSQL and psycopg2 do for the     *)
(* statements the class issues: a serial column draws the next sequence    *)
(* value for every attempted INSERT (also one that then fails), a UNIQUE   *)
(* column rejects a second non-null equal value and admits any number of   *)
(* NULLs, an error inside a transaction leaves the connection in a failed  *)
(* transaction in which every further statement raises InternalError until *)
(* commit() or rollback(), fetchone() on an empty result returns None, and *)
(* a SELECT without ORDER BY returns the rows in an unspecified order.     *)
(***************************************************************************)
EXTENDS Integers, Sequences, FiniteSets, TLC

VARIABLES papers, cites, lastP, lastC, rowIds, txn, attached, appended, result,
          callers, lc_messages

vars == <<papers, cites, lastP, lastC, rowIds, txn, attached, appended, result,
          callers, lc_messages>>

\* papers   rows of the primary table, in the order they were inserted
\* cites    rows of the <name>_citations table, in the order they were inserted
\* lastP    last value drawn from the primary table's id sequence
\* lastC    last value drawn from the citation table's id sequence
\* rowIds   the list part of the SQLPapers object
\* txn      the connection: "idle" or "aborted" (inside a failed transaction)
\* attached whether the store object was constructed with table=<name>
\* appended the input Paper of every row of the primary table (history)
\* lc_messages the language of the server's messages: "C" (English) or a
\*          translation such as "de_DE"
\* result   what the last call returned or raised (history)
\* callers  the callers that append at the same time, each with a connection
\*          and a store object of its own on the same tables, and how far
\*          each is into its append; empty while one caller works alone

-----------------------------------------------------------------------------
\* Bounds and the input universe

\* Appends are offered while the primary id sequence is below this value.
MaxSeq == 2

NULL == "NULL"

\* The UNIQUE columns of PAPER_TABLE, in declaration order.
UNIQUE_COLS == <<"uri", "doi", "pmid", "wosid", "eid">>

\* A Paper's 'citations' field: None, or a list.
NoCitations == [isNone |-> TRUE, list |-> <<>>]
SomeCitations(l) == [isNone |-> FALSE, list |-> l]

MkPaper(uri, doi, atitle, citations) ==
    [uri |-> uri, doi |-> doi, pmid |-> NULL, wosid |-> NULL, eid |-> NULL,
     atitle |-> atitle, citations |-> citations]

\* Cited Papers offered as input: one with two natural keys, one sharing its
\* uri but not its doi nor its title, one sharing that doi only (and
\* carrying citations of its own).
CitedX == MkPaper("u1", "d1", "T1", NoCitations)
CitedY == MkPaper("u1", "d2", "T2", NoCitations)
CitedZ == MkPaper(NULL, "d2", "T1", SomeCitations(<<CitedX>>))
CitedPapers == {CitedX, CitedY, CitedZ}

CitationLists ==
    {NoCitations, SomeCitations(<<>>)}
        \cup {SomeCitations(<<c>>) : c \in CitedPapers}
        \cup {SomeCitations(<<c, d>>) : c \in CitedPapers, d \in CitedPapers}

\* Papers offered to append: one of two dois, any of the citation lists.
Papers ==
    {MkPaper(NULL, d, "T0", cl) : d \in {"d1", "d2"}, cl \in CitationLists}

-----------------------------------------------------------------------------
\* The tables

\* The column values of a Paper other than 'citations' (append's `vals`).
Vals(p) == [c \in (DOMAIN p) \ {"citations"} |-> p[c]]

Row(id, vals, citations) ==
    [id |-> id, uri |-> vals.uri, doi |-> vals.doi, pmid |-> vals.pmid,
     wosid |-> vals.wosid, eid |-> vals.eid, atitle |-> vals.atitle,
     citations |-> citations]

\* The positions of UNIQUE_COLS whose value in vals is already in the table.
ConflictingCols(table, vals) ==
    {k \in DOMAIN UNIQUE_COLS :
        /\ vals[UNIQUE_COLS[k]] # NULL
        /\ \E i \in DOMAIN table : table[i][UNIQUE_COLS[k]] = vals[UNIQUE_COLS[k]]}

Min(S) == CHOOSE x \in S : \A y \in S : x <= y

\* INSERT INTO table (...) VALUES (...) RETURNING id. The id is drawn from
\* the sequence first; the unique indexes are then checked in the order in
\* which the table declares them, and the first violation is the error
\* (IntegrityError "... Key (<col>)=(<value>) already exists.").
Insert(table, last, vals, citations) ==
    LET id == last + 1
        bad == ConflictingCols(table, vals)
    IN  IF bad = {}
        THEN [ok |-> TRUE, id |-> id, last |-> id, key |-> NULL,
              table |-> Append(table, Row(id, vals, citations))]
        ELSE [ok |-> FALSE, id |-> 0, last |-> id,
              key |-> UNIQUE_COLS[Min(bad)], table |-> table]

\* A lookup that returns the first row of the table whatever the key.
SelectIdWhere_first(table, col, value) ==
    table[1].id

\* SELECT id FROM table WHERE <col> = value; fetchone()[0]
SelectIdWhere(table, col, value) ==
    LET i == CHOOSE i \in DOMAIN table : table[i][col] = value
    IN  table[i].id

\* SELECT * FROM table WHERE id = %s; fetchone(): the rows found (none or one)
SelectById(table, id) ==
    {table[i] : i \in {j \in DOMAIN table : table[j].id = id}}

Ids(table) == {table[i].id : i \in DOMAIN table}

-----------------------------------------------------------------------------
\* Reading: __get_by_id and _yield_paper

\* The Paper built from a row: every column is assigned to the field of its
\* name; 'id' has no field and is skipped by the bare except.
PaperOf(row, citations) ==
    [uri |-> row.uri, doi |-> row.doi, pmid |-> row.pmid, wosid |-> row.wosid,
     eid |-> row.eid, atitle |-> row.atitle, citations |-> citations]

Ok(value) == [status |-> "ok", value |-> value]
Raised(error) == [status |-> error, value |-> <<>>]

\* _yield_paper as run by the store of the citation table. A non-null
\* citations column would be resolved in <name>_citations_citations, a
\* relation that __init__ never creates.
yield_cited(row) ==
    IF row.citations.isNone
    THEN Ok(<<PaperOf(row, NoCitations)>>)
    ELSE Raised("ProgrammingError")

\* A lookup of a citation id in the primary table instead of the citation
\* table.
get_cited_by_id_primary(id) ==
    LET rows == SelectById(papers, id)
    IN  IF txn = "aborted" THEN Raised("InternalError")
        ELSE IF rows = {} THEN Raised("TypeError")
        ELSE yield_cited(CHOOSE r \in rows : TRUE)

\* citations.__get_by_id(k): fetchone() returns None when no row matches,
\* and _yield_paper then takes len(None).
get_cited_by_id(id) ==
    LET rows == SelectById(cites, id)
    IN  IF txn = "aborted" THEN Raised("InternalError")
        ELSE IF rows = {} THEN Raised("TypeError")
        ELSE yield_cited(CHOOSE r \in rows : TRUE)

\* _yield_paper as run by the primary store: a non-null citations column is
\* a list of ids, each resolved in the citation table, in order.
yield_paper(row) ==
    IF row.citations.isNone
    THEN Ok(<<PaperOf(row, NoCitations)>>)
    ELSE LET ids == row.citations.list
             got == [k \in DOMAIN ids |-> get_cited_by_id(ids[k])]
             bad == {k \in DOMAIN ids : got[k].status # "ok"}
         IN  IF bad # {}
             THEN Raised(got[Min(bad)].status)
             ELSE Ok(<<PaperOf(row,
                     SomeCitations([k \in DOMAIN ids |-> got[k].value[1]]))>>)

\* self.__get_by_id(id) on the primary store
get_by_id(id) ==
    LET rows == SelectById(papers, id)
    IN  IF txn = "aborted" THEN Raised("InternalError")
        ELSE IF rows = {} THEN Raised("TypeError")
        ELSE yield_paper(CHOOSE r \in rows : TRUE)

\* self[key]: list.__getitem__ (a negative key counts from the end), then
\* __get_by_id.
getitem(key) ==
    LET n == Len(rowIds)
        i == IF key < 0 THEN key + n ELSE key
    IN  IF i < 0 \/ i >= n THEN Raised("IndexError")
        ELSE get_by_id(rowIds[i + 1])

\* The orders in which a SELECT without ORDER BY may return n rows.
ScanOrders(n) ==
    {f \in [1 .. n -> 1 .. n] : \A i, j \in 1 .. n : f[i] = f[j] => i = j}

\* iter(store): SELECT * FROM <name>, then _yield_paper on each row fetched.
\* The Papers yielded, and how the generator ended.
iter(order) ==
    LET got == [k \in DOMAIN papers |-> yield_paper(papers[order[k]])]
        bad == {k \in DOMAIN papers : got[k].status # "ok"}
        n == IF bad = {} THEN Len(papers) ELSE Min(bad) - 1
    IN  IF txn = "aborted" THEN Raised("InternalError")
        ELSE [status |-> IF bad = {} THEN "ok" ELSE got[Min(bad)].status,
              value |-> [k \in 1 .. n |-> got[k].value[1]]]

\* SQLPapers(conn, dbparams, table=<name>): the rowIds of the new object
init(order) ==
    [k \in DOMAIN papers |-> papers[order[k]].id]

-----------------------------------------------------------------------------
\* Writing: append

\* A loop that stores a list for a citation that has citations of its own.
citations_of_cited_kept(citation) ==
    IF citation.citations.isNone THEN NoCitations ELSE SomeCitations(<<>>)

\* vals = { k:v for k,v in citation.iteritems() if k != 'citations' }: the
\* INSERT names no citations column, and the row gets the column's default.
citations_of_cited(citation) ==
    NoCitations

\* A search that finds the column whatever the language of the message.
ckey_any_language(key) ==
    key

\* re.search('Key \((.*?)\)', error).group(1): the conflicting column, when
\* the server's message has the English "Key (<col>)=(<value>)" detail; a
\* server with translated messages words the detail differently, the search
\* returns None and .group raises.
ckey(key) ==
    IF lc_messages = "C" THEN key ELSE NULL

\* A pass that gathers the id of an inserted row but leaves the row out of
\* the table, as a rollback in place of the commit would.
citation_step_rolled_back(st, citation) ==
    LET ins == Insert(st.table, st.last, Vals(citation), NoCitations)
    IN  [table |-> st.table, last |-> ins.last,
         ids |-> IF ins.ok THEN Append(st.ids, ins.id) ELSE st.ids]

\* One pass of the loop over obj['citations']: insert the citation; on a
\* unique violation commit, read the conflicting column from the message and
\* look the existing row up by it; without a column in the message, continue.
citation_step(st, citation) ==
    LET vals == Vals(citation)
        ins == Insert(st.table, st.last, vals, citations_of_cited(citation))
    IN  IF ins.ok
        THEN [table |-> ins.table, last |-> ins.last,
              ids |-> Append(st.ids, ins.id)]
        ELSE IF ckey(ins.key) = NULL
        THEN [table |-> st.table, last |-> ins.last, ids |-> st.ids]
        ELSE [table |-> st.table, last |-> ins.last,
              ids |-> Append(st.ids,
                             SelectIdWhere(st.table, ckey(ins.key),
                                           vals[ckey(ins.key)]))]

RECURSIVE citation_loop(_, _)
citation_loop(st, list) ==
    IF list = <<>> THEN st
    ELSE citation_loop(citation_step(st, Head(list)), Tail(list))

\* cit_ids and the citation table after the first half of append
citation_phase(obj) ==
    citation_loop([table |-> cites, last |-> lastC, ids |-> <<>>],
                  obj.citations.list)

\* An append that records the id outside the try block.
rowids_after_insert_always(ok, id) ==
    Append(rowIds, id)

\* The second half of append: the rowIds after the primary INSERT returned id
rowids_after_insert(ok, id) ==
    IF ok THEN Append(rowIds, id) ELSE rowIds

\* The connection after the primary INSERT: only complain=True commits.
txn_after_insert(ok, complain) ==
    IF ok \/ complain THEN "idle" ELSE "aborted"

\* An append that undoes its citation inserts when the primary INSERT fails.
cites_after_insert_undone(ok, table) ==
    IF ok THEN table ELSE cites

\* The citation table after the primary INSERT: every citation row was
\* committed in the loop, and the handlers of the primary INSERT leave the
\* citation table alone.
cites_after_insert(ok, table) ==
    table

\* A conversion that stores an empty list for a Paper without citations.
cit_ids_never_null(obj, ids) ==
    SomeCitations(ids)

\* cit_ids as the primary INSERT stores it: None when obj.citations is None,
\* the list of gathered ids otherwise
cit_ids_of(obj, ids) ==
    IF obj.citations.isNone THEN NoCitations ELSE SomeCitations(ids)

\* append(obj, complain): the store, the tables and the connection after the
\* call, and how the call ended.
append(obj, complain) ==
    IF txn = "aborted"
    THEN \* the first execute of the call raises; nothing catches it
         [papers |-> papers, cites |-> cites, lastP |-> lastP, lastC |-> lastC,
          rowIds |-> rowIds, txn |-> txn, appended |-> appended,
          status |-> "InternalError"]
    ELSE LET ph == citation_phase(obj)
             cit_ids == cit_ids_of(obj, ph.ids)
             ins == Insert(papers, lastP, Vals(obj), cit_ids)
         IN  [papers |-> ins.table, cites |-> cites_after_insert(ins.ok, ph.table),
              lastP |-> ins.last, lastC |-> ph.last,
              rowIds |-> rowids_after_insert(ins.ok, ins.id),
              txn |-> txn_after_insert(ins.ok, complain),
              appended |-> IF ins.ok THEN Append(appended, obj) ELSE appended,
              status |-> IF ins.ok \/ ~complain THEN "ok" ELSE "ValueError"]

\* other in a `store += other`: a Paper, or something else (a list of Papers)
Others ==
    [type : {"Paper"},
     paper : {p \in Papers :
                p.citations \in {NoCitations, SomeCitations(<<CitedX>>)}}]
        \cup {[type |-> "list", paper |-> MkPaper(NULL, "d1", "T0", NoCitations)]}

\* An __iadd__ that appends without complaining.
iadd_silent(other) ==
    IF other.type = "Paper"
    THEN append(other.paper, FALSE)
    ELSE [papers |-> papers, cites |-> cites, lastP |-> lastP, lastC |-> lastC,
          rowIds |-> rowIds, txn |-> txn, appended |-> appended,
          status |-> "ok"]

\* __iadd__(other): passes a Paper through to append, ignores anything else
iadd(other) ==
    IF other.type = "Paper"
    THEN append(other.paper, TRUE)
    ELSE [papers |-> papers, cites |-> cites, lastP |-> lastP, lastC |-> lastC,
          rowIds |-> rowIds, txn |-> txn, appended |-> appended,
          status |-> "ok"]

-----------------------------------------------------------------------------
\* The calls

\* dup: whether the Paper passed in had a natural key of a row already in
\*      the primary table when the call began
Outcome(call, status, dup, complain, key, value) ==
    [call |-> call, status |-> status, dup |-> dup, complain |-> complain,
     key |-> key, value |-> value]

Duplicate(obj) == ConflictingCols(papers, Vals(obj)) # {}

Store(o) ==
    /\ papers' = o.papers
    /\ cites' = o.cites
    /\ lastP' = o.lastP
    /\ lastC' = o.lastC
    /\ rowIds' = o.rowIds
    /\ txn' = o.txn
    /\ appended' = o.appended

\* The callers of the concurrent appends
Callers == {1, 2}

\* A caller at step pc of append(obj): k is the citation the loop is at, ids
\* is cit_ids, how tells for each id whether its row was inserted or reused,
\* uncommitted is the row its open transaction has inserted, key the column
\* read from the last IntegrityError, rowIds the list part of its store.
Caller(pc, obj) ==
    [pc |-> pc, obj |-> obj, k |-> 1, ids |-> <<>>, how |-> <<>>,
     uncommitted |-> <<>>, key |-> NULL, rowIds |-> <<>>]

\* SQLPapers(conn, dbparams): both tables are created empty.
Init ==
    /\ papers = <<>>
    /\ cites = <<>>
    /\ lastP = 0
    /\ lastC = 0
    /\ rowIds = <<>>
    /\ txn = "idle"
    /\ attached = FALSE
    /\ appended = <<>>
    /\ result = Outcome("init", "ok", FALSE, TRUE, 0, <<>>)
    /\ callers = <<>>
    /\ lc_messages = "C"

\* store.append(obj, complain)
CallAppend(obj, complain) ==
    /\ lastP < MaxSeq \/ txn = "aborted"
    /\ LET o == append(obj, complain)
       IN  /\ Store(o)
           /\ result' = Outcome("append", o.status, Duplicate(obj), complain, 0, <<>>)
    /\ UNCHANGED <<attached, callers, lc_messages>>

\* store += other
CallIadd(other) ==
    /\ lastP < MaxSeq \/ txn = "aborted"
    /\ LET o == iadd(other)
       IN  /\ Store(o)
           /\ result' = Outcome("iadd", o.status,
                               other.type = "Paper" /\ Duplicate(other.paper),
                               TRUE, 0, <<>>)
    /\ UNCHANGED <<attached, callers, lc_messages>>

\* store[key]
CallGetitem(key) ==
    /\ LET r == getitem(key)
       IN  result' = Outcome("getitem", r.status, FALSE, TRUE, key, r.value)
    /\ UNCHANGED <<papers, cites, lastP, lastC, rowIds, txn, attached, appended,
                   callers, lc_messages>>

\* store._SQLPapers__get_by_id(id)
CallGetById(id) ==
    /\ LET r == get_by_id(id)
       IN  result' = Outcome("get_by_id", r.status, FALSE, TRUE, id, r.value)
    /\ UNCHANGED <<papers, cites, lastP, lastC, rowIds, txn, attached, appended,
                   callers, lc_messages>>

\* for paper in store: ..., run to its end
CallIter(order) ==
    /\ LET r == iter(order)
       IN  result' = Outcome("iter", r.status, FALSE, TRUE, 0, r.value)
    /\ UNCHANGED <<papers, cites, lastP, lastC, rowIds, txn, attached, appended,
                   callers, lc_messages>>

\* store = SQLPapers(conn, dbparams, table=store.name): a new object on the
\* tables of the old one. On a connection in a failed transaction the
\* constructor raises and no object is made.
CallInit(order) ==
    /\ IF txn = "aborted"
       THEN /\ result' = Outcome("init", "InternalError", FALSE, TRUE, 0, <<>>)
            /\ UNCHANGED <<rowIds, attached>>
       ELSE /\ rowIds' = init(order)
            /\ attached' = TRUE
            /\ result' = Outcome("init", "ok", FALSE, TRUE, 0, <<>>)
    /\ UNCHANGED <<papers, cites, lastP, lastC, txn, appended, callers,
                   lc_messages>>

\* The calls on a store created with its tables
Next ==
    \/ \E obj \in Papers, complain \in BOOLEAN : CallAppend(obj, complain)
    \/ \E other \in Others : CallIadd(other)
    \/ \E key \in -1 .. MaxSeq : CallGetitem(key)
    \/ \E id \in 1 .. MaxSeq + 1 : CallGetById(id)
    \/ \E order \in ScanOrders(Len(papers)) : CallIter(order)

Spec == Init /\ [][Next]_vars

\* The same calls, and stores attached to the tables at any time
NextAttached ==
    \/ Next
    \/ \E order \in ScanOrders(Len(papers)) : CallInit(order)

\* The same calls against a server whose messages are translated
InitTranslated ==
    /\ papers = <<>>
    /\ cites = <<>>
    /\ lastP = 0
    /\ lastC = 0
    /\ rowIds = <<>>
    /\ txn = "idle"
    /\ attached = FALSE
    /\ appended = <<>>
    /\ result = Outcome("init", "ok", FALSE, TRUE, 0, <<>>)
    /\ callers = <<>>
    /\ lc_messages = "de_DE"

SpecTranslated == InitTranslated /\ [][Next]_vars

SpecAttached == Init /\ [][NextAttached]_vars

-----------------------------------------------------------------------------
\* Two callers appending at the same time, each on a connection of its own
\* (READ COMMITTED): a step is one statement or one commit. An INSERT whose
\* first conflicting unique value is held by a row another transaction has
\* not committed yet waits for that transaction; a SELECT sees every
\* committed row.

\* The rows of the other callers' open transactions
UncommittedOfOthers(c) ==
    LET d == CHOOSE d \in Callers : d # c
    IN  callers[d].uncommitted

\* cur.execute(INSERT ...) of caller c against the committed rows: the
\* outcome, and whether the statement has to wait.
InsertBy(c, table, last, vals, citations) ==
    LET seen == table \o UncommittedOfOthers(c)
        bad == ConflictingCols(seen, vals)
        ins == Insert(seen, last, vals, citations)
    IN  [waits |-> bad # {} /\ Min(bad) \notin ConflictingCols(table, vals),
         ok |-> ins.ok, last |-> ins.last, key |-> ins.key,
         row |-> IF ins.ok THEN <<ins.table[Len(ins.table)]>> ELSE <<>>]

\* The step after citation k has been dealt with
AfterCitation(me) ==
    IF me.k < Len(me.obj.citations.list) THEN "execute_citation"
    ELSE "execute_paper"

\* A lookup step that takes the id the sequence gave the failed INSERT.
reused_id_stale(me, table, last) ==
    last

\* The id the lookup step appends to cit_ids
reused_id(me, table, last) ==
    SelectIdWhere(table, me.key, Vals(me.obj.citations.list[me.k])[me.key])

\* cur.execute(arg, vals) for citation k
ExecuteCitation(c) ==
    LET me == callers[c]
        ins == InsertBy(c, cites, lastC, Vals(me.obj.citations.list[me.k]),
                        citations_of_cited(me.obj.citations.list[me.k]))
    IN  /\ me.pc = "execute_citation"
        /\ ~ins.waits
        /\ lastC' = ins.last
        /\ callers' = [callers EXCEPT ![c] =
                [me EXCEPT !.pc = IF ins.ok THEN "commit_citation"
                                  ELSE "clear_error",
                           !.uncommitted = ins.row,
                           !.key = ckey(ins.key)]]
        /\ UNCHANGED <<papers, cites, lastP,
                       rowIds, txn, attached, appended, result,
                       lc_messages>>

\* id = cur.fetchone()[0]; self.conn.commit(); cit_ids.append(int(id))
CommitCitation(c) ==
    LET me == callers[c]
    IN  /\ me.pc = "commit_citation"
        /\ cites' = cites \o me.uncommitted
        /\ callers' = [callers EXCEPT ![c] =
                [me EXCEPT !.pc = AfterCitation(me),
                           !.k = me.k + 1,
                           !.uncommitted = <<>>,
                           !.ids = Append(me.ids, me.uncommitted[1].id),
                           !.how = Append(me.how, "inserted")]]
        /\ UNCHANGED <<papers, lastP, lastC,
                       rowIds, txn, attached, appended, result,
                       lc_messages>>

\* except IntegrityError: self.conn.commit(), then the column is read from
\* the message; without one the loop continues with the next citation.
ClearError(c) ==
    LET me == callers[c]
    IN  /\ me.pc = "clear_error"
        /\ callers' = [callers EXCEPT ![c] =
                IF me.key = NULL
                THEN [me EXCEPT !.pc = AfterCitation(me), !.k = me.k + 1]
                ELSE [me EXCEPT !.pc = "lookup_citation"]]
        /\ UNCHANGED <<papers, cites, lastP, lastC,
                       rowIds, txn, attached, appended, result,
                       lc_messages>>

\* SELECT id FROM <name>_citations WHERE <key> = %s; cit_ids.append(int(id))
LookupCitation(c) ==
    LET me == callers[c]
    IN  /\ me.pc = "lookup_citation"
        /\ callers' = [callers EXCEPT ![c] =
                [me EXCEPT !.pc = AfterCitation(me),
                           !.k = me.k + 1,
                           !.ids = Append(me.ids, reused_id(me, cites, lastC)),
                           !.how = Append(me.how, "reused")]]
        /\ UNCHANGED <<papers, cites, lastP, lastC,
                       rowIds, txn, attached, appended, result,
                       lc_messages>>

\* cur.execute(arg, vals) for the Paper itself; on IntegrityError, with the
\* default complain=True, commit and raise ValueError.
ExecutePaper(c) ==
    LET me == callers[c]
        cit_ids == cit_ids_of(me.obj, me.ids)
        ins == InsertBy(c, papers, lastP, Vals(me.obj), cit_ids)
    IN  /\ me.pc = "execute_paper"
        /\ ~ins.waits
        /\ lastP' = ins.last
        /\ callers' = [callers EXCEPT ![c] =
                [me EXCEPT !.pc = IF ins.ok THEN "commit_paper" ELSE "raised",
                           !.uncommitted = ins.row]]
        /\ UNCHANGED <<papers, cites, lastC,
                       rowIds, txn, attached, appended, result,
                       lc_messages>>

\* id = cur.fetchone()[0]; self.conn.commit(); list.append(self, id)
CommitPaper(c) ==
    LET me == callers[c]
    IN  /\ me.pc = "commit_paper"
        /\ papers' = papers \o me.uncommitted
        /\ callers' = [callers EXCEPT ![c] =
                [me EXCEPT !.pc = "done",
                           !.uncommitted = <<>>,
                           !.rowIds = Append(me.rowIds, me.uncommitted[1].id)]]
        /\ UNCHANGED <<cites, lastP, lastC,
                       rowIds, txn, attached, appended, result,
                       lc_messages>>

\* The first step of append(obj) for a Paper with this citation list
FirstStep(obj) ==
    IF obj.citations.list = <<>> THEN "execute_paper" ELSE "execute_citation"

\* Both callers have attached to the new, empty tables and each begins to
\* append a Paper of its own; the two Papers have different dois.
InitConcurrent ==
    /\ papers = <<>>
    /\ cites = <<>>
    /\ lastP = 0
    /\ lastC = 0
    /\ rowIds = <<>>
    /\ txn = "idle"
    /\ attached = FALSE
    /\ appended = <<>>
    /\ result = Outcome("init", "ok", FALSE, TRUE, 0, <<>>)
    /\ lc_messages = "C"
    /\ \E l1, l2 \in CitationLists :
        callers = [c \in Callers |->
            IF c = 1
            THEN Caller(FirstStep(MkPaper(NULL, "d1", "T0", l1)),
                        MkPaper(NULL, "d1", "T0", l1))
            ELSE Caller(FirstStep(MkPaper(NULL, "d2", "T0", l2)),
                        MkPaper(NULL, "d2", "T0", l2))]

NextConcurrent ==
    \/ \E c \in Callers : ExecuteCitation(c)
    \/ \E c \in Callers : CommitCitation(c)
    \/ \E c \in Callers : ClearError(c)
    \/ \E c \in Callers : LookupCitation(c)
    \/ \E c \in Callers : ExecutePaper(c)
    \/ \E c \in Callers : CommitPaper(c)

SpecConcurrent == InitConcurrent /\ [][NextConcurrent]_vars

-----------------------------------------------------------------------------
\* Properties

Range(s) == {s[i] : i \in DOMAIN s}

\* Every non-null value of a UNIQUE column is held by at most one row.
KeysUnique(table) ==
    \A k \in DOMAIN UNIQUE_COLS : \A i, j \in DOMAIN table :
        (table[i][UNIQUE_COLS[k]] # NULL
            /\ table[i][UNIQUE_COLS[k]] = table[j][UNIQUE_COLS[k]]) => i = j

\* Row r of a table and Paper c have a natural-key value in common.
SharesKey(r, c) ==
    \E k \in DOMAIN UNIQUE_COLS :
        c[UNIQUE_COLS[k]] # NULL /\ r[UNIQUE_COLS[k]] = c[UNIQUE_COLS[k]]

\* The citations of the Paper that became row p of the primary table.
InputCitations(p) == appended[p].citations.list

\* C1 as stated: the citation table holds at most one row for each
\* natural-key value, and a primary row whose input carried a citation with
\* a natural-key value stores the id of the citation row holding that value.
C1_EveryKeyReferenced ==
    /\ KeysUnique(cites)
    /\ \A p \in DOMAIN papers : \A k \in DOMAIN InputCitations(p) :
        \A i \in DOMAIN cites :
            SharesKey(cites[i], InputCitations(p)[k])
                => cites[i].id \in Range(papers[p].citations.list)

\* C1 as amended: the citation table holds at most one row for each
\* natural-key value, and a primary row stores, for each citation of its
\* input and in the input's order, the id of one citation row that has a
\* natural-key value in common with that citation or was inserted from it.
C1_OneSharingRowReferenced ==
    /\ KeysUnique(cites)
    /\ \A p \in DOMAIN papers :
        /\ Len(papers[p].citations.list) = Len(InputCitations(p))
        /\ \A k \in DOMAIN InputCitations(p) :
            \E i \in DOMAIN cites :
                /\ cites[i].id = papers[p].citations.list[k]
                /\ \/ SharesKey(cites[i], InputCitations(p)[k])
                   \/ Vals(PaperOf(cites[i], NoCitations))
                        = Vals(InputCitations(p)[k])

\* Two primary rows cite the same Paper, which is the one citation row.
C1_Witness ==
    /\ Len(papers) = 2
    /\ Len(cites) = 1
    /\ InputCitations(1) = <<CitedX>>
    /\ InputCitations(2) = <<CitedX>>
    /\ papers[1].citations.list = <<cites[1].id>>
    /\ papers[2].citations.list = <<cites[1].id>>

\* C2 as stated: append(r, complain=True) of a Paper whose natural key is
\* already in the primary table raises ValueError and leaves rowIds and the
\* primary table as they were.
C2_DuplicateRaisesValueError ==
    [][(result'.call = "append" /\ result'.complain /\ result'.dup)
        => (/\ result'.status = "ValueError"
            /\ rowIds' = rowIds
            /\ papers' = papers)]_vars

\* C3 as stated: append(r, complain=False) of a Paper whose natural key is
\* already in the primary table returns without raising, inserts no primary
\* row and leaves rowIds as it was.
C3_DuplicateDroppedSilently ==
    [][(result'.call = "append" /\ ~result'.complain /\ result'.dup)
        => (/\ result'.status = "ok"
            /\ rowIds' = rowIds
            /\ papers' = papers)]_vars

\* C4 as stated, on a connection that is not in a failed transaction:
\* resolving an id that is in no row of the table raises KeyError.
C4_MissingIdRaisesKeyError ==
    (result.call = "get_by_id" /\ result.key \notin Ids(papers)
        /\ txn = "idle")
        => result.status = "KeyError"

\* C5 as stated: on a store created with its tables, store[i] returns the
\* Paper of the i-th successful append for every i below their number,
\* whatever failed or dropped appends came in between.
C5_IndexReturnsIthAppended ==
    (result.call = "getitem" /\ ~attached
        /\ 0 <= result.key /\ result.key < Len(appended))
        => (/\ result.status = "ok"
            /\ Vals(result.value[1]) = Vals(appended[result.key + 1]))

\* Two Papers have no natural-key value in common.
KeyDisjoint(c, d) ==
    \A k \in DOMAIN UNIQUE_COLS :
        c[UNIQUE_COLS[k]] = NULL \/ c[UNIQUE_COLS[k]] # d[UNIQUE_COLS[k]]

PairwiseDistinct(list) ==
    \A i, j \in DOMAIN list : i # j => KeyDisjoint(list[i], list[j])

\* The citation table holds a row with the natural keys and title of c.
AlreadyPresent(c) ==
    \E i \in DOMAIN cites : Vals(PaperOf(cites[i], NoCitations)) = Vals(c)

\* A Paper whose citations have pairwise distinct natural keys, each of them
\* either new to the citation table or already in it with the same natural
\* keys and title.
RoundTripInput(obj) ==
    /\ ~obj.citations.isNone
    /\ PairwiseDistinct(obj.citations.list)
    /\ \A k \in DOMAIN obj.citations.list :
        \/ ConflictingCols(cites, Vals(obj.citations.list[k])) = {}
        \/ AlreadyPresent(obj.citations.list[k])

\* Reading the last position back yields the citations of the Paper appended
\* last: as many, in the same order, each equal by natural keys and title.
LastReadsBack ==
    LET obj == appended[Len(appended)]
        r == getitem(Len(rowIds) - 1)
    IN  /\ r.status = "ok"
        /\ ~r.value[1].citations.isNone
        /\ Len(r.value[1].citations.list) = Len(obj.citations.list)
        /\ \A k \in DOMAIN obj.citations.list :
            Vals(r.value[1].citations.list[k]) = Vals(obj.citations.list[k])

\* C6 as stated: after an append that stored a Paper whose k citations have
\* pairwise distinct natural keys, reading the Paper back by index yields
\* exactly those k citations, equal by natural keys and title, also when
\* some of them met a row of the citation table and were reused.
C6_AnyReuseRoundTrips ==
    [][(/\ result'.call = "append"
        /\ result'.status = "ok"
        /\ Len(appended') = Len(appended) + 1
        /\ ~appended'[Len(appended')].citations.isNone
        /\ PairwiseDistinct(appended'[Len(appended')].citations.list))
        => LastReadsBack']_vars

\* C6 as amended: after an append that stored a Paper whose k citations have
\* pairwise distinct natural keys, each either new to the citation table or
\* already stored there with the same natural keys and title, reading the
\* Paper back by index yields exactly those k citations, equal by natural
\* keys and title.
C6_CitationsRoundTrip ==
    [][(/\ result'.call = "append"
        /\ result'.status = "ok"
        /\ Len(appended') = Len(appended) + 1
        /\ RoundTripInput(appended'[Len(appended')]))
        => LastReadsBack']_vars

\* A Paper citing two Papers was appended; one of them was already in the
\* citation table and reused, the other was inserted.
C6_Witness ==
    /\ result.call = "append"
    /\ result.status = "ok"
    /\ Len(appended) = 2
    /\ appended[1].citations.list = <<CitedX>>
    /\ appended[2].citations.list = <<CitedZ, CitedX>>
    /\ papers[2].citations.list = <<2, 1>>
    /\ LastReadsBack

\* C7 as stated: a full iteration ends and yields one Paper per row of the
\* primary table, every appended Paper among them by its natural keys and
\* title, and an iteration that follows another yields the same Papers.
C7_IterationYieldsEveryRow ==
    [][result'.call = "iter"
        => (/\ result'.status = "ok"
            /\ Len(result'.value) = Len(papers')
            /\ \A p \in DOMAIN appended' : \E k \in DOMAIN result'.value :
                Vals(result'.value[k]) = Vals(appended'[p])
            /\ result.call = "iter"
                => Range(result'.value) = Range(result.value))]_vars

\* C8: rowIds is as long as the primary table has rows, after construction
\* (with new tables or on existing ones) and after every append.
C8_RowIdsCountRows ==
    Len(rowIds) = Len(papers)

\* A store attached to a table with a row has just dropped a duplicate.
C8_Witness ==
    /\ attached
    /\ result.call = "append"
    /\ result.dup
    /\ ~result.complain
    /\ Len(rowIds) = 1

\* C9: from any state, store += r with a Paper r leaves the tables, rowIds
\* and the connection as store.append(r) does, and raises when it raises.
C9_IaddIsAppend ==
    \A r \in Papers : iadd([type |-> "Paper", paper |-> r]) = append(r, TRUE)

\* store += r has raised the duplicate error.
C9_Witness ==
    /\ result.call = "iadd"
    /\ result.dup
    /\ result.status = "ValueError"
    /\ Len(rowIds) = 1

Ascending(s) == \A i, j \in DOMAIN s : i < j => s[i] < s[j]

\* C10 as stated: attaching a store to existing tables creates no table and
\* loads every row id once, in ascending order, so that store[i] is the row
\* with the i-th smallest id.
C10_AttachLoadsIdsAscending ==
    [][(result'.call = "init" /\ result'.status = "ok")
        => (/\ papers' = papers
            /\ cites' = cites
            /\ Len(rowIds') = Len(papers')
            /\ Range(rowIds') = Ids(papers')
            /\ Ascending(rowIds'))]_vars


\* Concurrent appends.
Returned(c) == callers[c].pc \in {"done", "raised"}

\* Caller c is at an INSERT that waits for another transaction.
Waiting(c) ==
    LET me == callers[c]
    IN  \/ /\ me.pc = "execute_citation"
           /\ InsertBy(c, cites, lastC, Vals(me.obj.citations.list[me.k]),
                       NoCitations).waits
        \/ /\ me.pc = "execute_paper"
           /\ InsertBy(c, papers, lastP, Vals(me.obj), NoCitations).waits

CitedBy(c) == callers[c].obj.citations.list

\* Citation i of caller 1 and citation j of caller 2 have a natural-key
\* value in common.
SameKey(i, j) == SharesKey(CitedBy(1)[i], CitedBy(2)[j])

\* Citation i of caller 1 and citation j of caller 2 are the same citation,
\* and no other citation of either call shares a natural-key value with it.
SameCitation(i, j) ==
    /\ CitedBy(1)[i] = CitedBy(2)[j]
    /\ \A c \in Callers : \A k \in DOMAIN CitedBy(c) :
        CitedBy(c)[k] = CitedBy(1)[i] \/ KeyDisjoint(CitedBy(c)[k], CitedBy(1)[i])

\* The rows of the citation table that share a natural-key value with x
RowsFor(x) == {r \in DOMAIN cites : SharesKey(cites[r], x)}

\* How often citation x was inserted, over both calls
InsertedCount(x) ==
    Cardinality({<<c, k>> \in Callers \X (1..4) :
        /\ k \in DOMAIN callers[c].how
        /\ CitedBy(c)[k] = x
        /\ callers[c].how[k] = "inserted"})

\* Both primary rows are in the table, each with the ids its call gathered.
BothStored ==
    /\ Len(papers) = 2
    /\ \A c \in Callers : \E p \in DOMAIN papers :
        /\ papers[p].doi = callers[c].obj.doi
        /\ papers[p].citations =
            (IF callers[c].obj.citations.isNone THEN NoCitations
             ELSE SomeCitations(callers[c].ids))
        /\ callers[c].rowIds = <<papers[p].id>>

\* One row for the citations i and j, referenced by both calls, inserted
\* by one call and reused by every other occurrence.
OneRowBothReference(i, j) ==
    /\ Cardinality(RowsFor(CitedBy(1)[i])) = 1
    /\ \A r \in RowsFor(CitedBy(1)[i]) :
        /\ SharesKey(cites[r], CitedBy(2)[j])
        /\ callers[1].ids[i] = cites[r].id
        /\ callers[2].ids[j] = cites[r].id

\* Some caller that has not returned can take a step.
NoneStuck ==
    (\E c \in Callers : ~Returned(c)) =>
        (\E c \in Callers : ~Returned(c) /\ ~Waiting(c))

\* C11 as stated: whenever the two calls cite citations with a natural-key
\* value in common, no interleaving gets stuck and, when both calls have
\* returned, both primary rows are stored and the citation table has one
\* row for the two citations whose id both calls gathered for them.
C11_AnySharedKeyOneRow ==
    /\ NoneStuck
    /\ (\A c \in Callers : Returned(c)) =>
        /\ BothStored
        /\ \A i \in DOMAIN CitedBy(1) : \A j \in DOMAIN CitedBy(2) :
            SameKey(i, j) => OneRowBothReference(i, j)

\* C11, amended: whenever the two calls cite the same citation, and no
\* other citation of either call shares a natural-key value with it, no
\* interleaving gets stuck and, when both calls have returned, both primary
\* rows are stored, the citation table has one row for that citation, both
\* calls gathered its id, and exactly one occurrence inserted it while
\* every other reused it after the unique violation.
C11_SameCitationOneRow ==
    /\ NoneStuck
    /\ (\A c \in Callers : Returned(c)) =>
        /\ BothStored
        /\ \A i \in DOMAIN CitedBy(1) : \A j \in DOMAIN CitedBy(2) :
            SameCitation(i, j) =>
                /\ OneRowBothReference(i, j)
                /\ InsertedCount(CitedBy(1)[i]) = 1

\* Both calls have returned; caller 2 inserted the citation they share while
\* caller 1 was at the same citation, and caller 1 reused the row.
C11_Witness ==
    /\ \A c \in Callers : Returned(c)
    /\ BothStored
    /\ \E i \in DOMAIN CitedBy(1) : \E j \in DOMAIN CitedBy(2) :
        /\ SameCitation(i, j)
        /\ callers[1].how[i] = "reused"
        /\ callers[2].how[j] = "inserted"
        /\ papers[1].doi = "d1"


\* The citation row whose id is stored at position k of primary row p
StoredCitation(p, k) ==
    cites[CHOOSE i \in DOMAIN cites : cites[i].id = papers[p].citations.list[k]]

\* C12: the citations column of every primary row is null exactly when the
\* appended Paper's citations field was null; otherwise it is a list with
\* one id for each input citation, in the input's order (so empty for an
\* empty input), each the id of the row inserted or reused for the citation
\* at that position.
C12_CitIdsFollowInput ==
    \A p \in DOMAIN papers :
        /\ papers[p].citations.isNone = appended[p].citations.isNone
        /\ appended[p].citations.isNone => papers[p].citations.list = <<>>
        /\ Len(papers[p].citations.list) = Len(InputCitations(p))
        /\ \A k \in DOMAIN InputCitations(p) :
            /\ papers[p].citations.list[k] \in Ids(cites)
            /\ SharesKey(StoredCitation(p, k), InputCitations(p)[k])

\* One Paper was appended with two citations that were inserted, the next
\* with the same two citations the other way round, both reused.
C12_Witness ==
    /\ Len(papers) = 2
    /\ InputCitations(1) = <<CitedX, CitedZ>>
    /\ InputCitations(2) = <<CitedZ, CitedX>>
    /\ papers[1].citations = SomeCitations(<<1, 2>>)
    /\ papers[2].citations = SomeCitations(<<2, 1>>)


\* The ids of the rows a step added to the citation table, in order
NewCitationIds ==
    [k \in 1 .. (Len(cites') - Len(cites)) |-> cites'[Len(cites) + k].id]

\* The Paper stored by a step that added a primary row
JustAppended == appended'[Len(appended')]

\* C13: on a server whose violation message does not name the conflicting
\* column, an append on a working connection ends without an error from the
\* citation loop (it returns, or raises ValueError for a duplicate Paper),
\* has attempted the primary INSERT, and when that stored the Paper, has
\* attempted the INSERT of every citation and has stored exactly the ids of
\* the citation rows it inserted: a citation that hit a unique violation
\* contributed no id.
C13_UnkeyedViolationSkipped ==
    [][(result'.call = "append" /\ txn = "idle") =>
        /\ result'.status = (IF result'.dup /\ result'.complain
                             THEN "ValueError" ELSE "ok")
        /\ lastP' = lastP + 1
        /\ SubSeq(cites', 1, Len(cites)) = cites
        /\ ~result'.dup =>
            /\ Len(papers') = Len(papers) + 1
            /\ lastC' = lastC + Len(JustAppended.citations.list)
            /\ papers'[Len(papers')].citations =
                cit_ids_of(JustAppended, NewCitationIds)]_vars

\* An append of a Paper citing X, which is in the citation table already,
\* and then Z, which is not, has stored the id of Z alone.
C13_Witness ==
    /\ lc_messages = "de_DE"
    /\ result.call = "append"
    /\ result.status = "ok"
    /\ Len(papers) = 2
    /\ InputCitations(1) = <<CitedX>>
    /\ InputCitations(2) = <<CitedX, CitedZ>>
    /\ papers[2].citations = SomeCitations(<<3>>)


\* The Papers that reading primary row p gives as its citations
Resolved(p) == yield_paper(papers[p]).value[1].citations.list

\* C14: every row of the citation table has a null citations column, so
\* reading a primary row never looks for citations of a citation (which
\* would be a query on <name>_citations_citations) and every cited Paper it
\* returns has no citations of its own.
C14_CitationsOneLevel ==
    /\ \A i \in DOMAIN cites : cites[i].citations = NoCitations
    /\ \A p \in DOMAIN papers :
        /\ yield_paper(papers[p]).status # "ProgrammingError"
        /\ yield_paper(papers[p]).status = "ok" =>
            \A k \in DOMAIN Resolved(p) : Resolved(p)[k].citations = NoCitations

\* A Paper citing Z, which itself cites X, was appended and has just been
\* read back: Z is in the citation table, X is not, and the Paper read has
\* Z without citations.
C14_Witness ==
    /\ Len(papers) = 1
    /\ InputCitations(1) = <<CitedZ>>
    /\ Len(cites) = 1
    /\ cites[1].doi = "d2"
    /\ result.call = "getitem"
    /\ result.status = "ok"
    /\ result.value[1].citations.list = <<[CitedZ EXCEPT !.citations = NoCitations]>>


\* C15: when an append has returned or raised, the connection is not in a
\* failed transaction, and reading any index of the store does not fail
\* with the error of a failed transaction.
C15_AppendLeavesConnectionUsable ==
    result.call = "append" =>
        /\ txn = "idle"
        /\ \A key \in 0 .. Len(rowIds) - 1 :
            getitem(key).status # "InternalError"


\* C16: every id in the citations column of a primary row is the id of a
\* row of the citation table, and reading an index within range fails only
\* when the connection is in a failed transaction, which stops the read at
\* its first query, before any citation is resolved.
C16_CitationIdsExist ==
    /\ \A p \in DOMAIN papers : \A k \in DOMAIN papers[p].citations.list :
        papers[p].citations.list[k] \in Ids(cites)
    /\ \A key \in 0 .. Len(rowIds) - 1 :
        /\ getitem(key).status \in {"ok", "InternalError"}
        /\ txn = "idle" => getitem(key).status = "ok"

\* The second Paper appended cites a row that the first one inserted, and
\* has just been read back with that citation resolved.
C16_Witness ==
    /\ Len(papers) = 2
    /\ papers[1].citations = SomeCitations(<<1, 2>>)
    /\ papers[2].citations = SomeCitations(<<2>>)
    /\ result.call = "getitem"
    /\ result.key = 1
    /\ result.status = "ok"
    /\ Len(result.value[1].citations.list) = 1


\* C17: an append on a working connection whose primary INSERT fails on a
\* unique violation, with complain true or false, leaves the primary table
\* and rowIds as they were, while the citation table keeps its rows and has
\* gained a row for every citation of the call that was not in it: whatever
\* duplicate Paper the call was given, after the call every citation of
\* that Paper shares a natural-key value with a row, and every new row holds
\* the values of one of its citations.
C17_FailedAppendKeepsCitations ==
    [][(txn = "idle" /\ result'.call = "append" /\ result'.dup) =>
        /\ papers' = papers
        /\ rowIds' = rowIds
        /\ result'.status = (IF result'.complain THEN "ValueError" ELSE "ok")
        /\ SubSeq(cites', 1, Len(cites)) = cites
        /\ \A obj \in {o \in Papers : Duplicate(o)} :
            \/ /\ \A k \in DOMAIN obj.citations.list :
                    \E i \in DOMAIN cites' :
                        SharesKey(cites'[i], obj.citations.list[k])
               /\ \A i \in (Len(cites) + 1) .. Len(cites') :
                    \E k \in DOMAIN obj.citations.list :
                        Vals(PaperOf(cites'[i], NoCitations))
                            = Vals(obj.citations.list[k])
            \/ ~CallAppend(obj, result'.complain)]_vars

\* The one Paper in the store has no citations, and an append of a
\* duplicate of it that cites two Papers has just failed: the citation
\* table has the two rows.
C17_Witness ==
    /\ result.call = "append"
    /\ result.dup
    /\ result.status = "ValueError"
    /\ Len(papers) = 1
    /\ papers[1].citations = NoCitations
    /\ lastP = 2
    /\ Len(cites) = 2

====
